---- MODULE Spec2Model ----
(***************************************************************************)
(* A model of src/src/main.rs: the snippets of "Sharing Versus Mutation".  *)
(*                                                                         *)
(*   - extend (lines 30-34) over a heap of buffers, called on arbitrary    *)
(*     vectors and slices, and by main (lines 37-48);                      *)
(*   - the two reference rules (lines 62-63) as the guard of every         *)
(*     statement the borrow snippets attempt (lines 9-25, 72-95);          *)
(*   - the File record, its assignment operator and clone_from             *)
(*     (lines 102-139) over a table of open descriptors.                   *)
(***************************************************************************)
EXTENDS Integers, Sequences, FiniteSets, TLC

\* Longest contents of a vector or a slice handed to extend.
MaxLen == 2
\* Most slots a reallocation adds beyond the old capacity.
MaxGrow == 4

\* The f64 values of lines 38-39: 0.0, 1.0, -1.0.
Values == {0, 1, 0 - 1}

SeqsUpTo(S, n) == UNION {[1..k -> S] : k \in 0..n}

\* let head = vec![0.0, 1.0];
head == <<0, 1>>
\* let tail = [0.0, -1.0];
tail == <<0, 0 - 1>>
\* assert_eq!(wave, vec![0.0, 1.0, 0.0, -1.0]);
Expected1 == <<0, 1, 0, 0 - 1>>
\* assert_eq!(wave, vec![0.0, 1.0, 0.0, -1.0, 0.0, 1.0, 0.0, -1.0]);
Expected2 == <<0, 1, 0, 0 - 1, 0, 1, 0, 0 - 1>>

VARIABLES
    snippet,    \* which standalone snippet runs: "main", "call", "borrow", "file"
    borrowck,   \* whether the reference rules are enforced (Rust) or not (C++)
    heap,       \* buffers: heap[b] = [data |-> initialised cells, live |-> not dropped]
    wave,       \* the vector: [buf |-> buffer (0: none), len, cap]
    slice,      \* extend's slice argument: [buf, len]
    pc,         \* position in the snippet
    i,          \* extend's loop index: elements of slice consumed
    pushed,     \* the values pushed by the running call, in order
    dropped,    \* reads through slice that hit a dropped buffer, this call
    reallocs,   \* reallocations done by the running call
    entry,      \* the call's entry state: [vec, src, cap, aliased]
    refs,       \* the live references to w: refs[r] = [kind, path, parent]
    moved,      \* whether w's value was moved away
    val,        \* the values of w's two fields
    last,       \* the last statement attempted and whether it was accepted
    fds,        \* the open file descriptors
    files,      \* files[f]: the descriptor File f holds (NoFile: not constructed)
    cur         \* the running assignment: [dst, src]

extVars == <<heap, wave, slice, i, pushed, dropped, reallocs, entry>>
brwVars == <<refs, moved, val>>
fileVars == <<fds, files, cur>>
vars == <<snippet, borrowck, pc, last, extVars, brwVars, fileVars>>

(***************************************************************************)
(* The reference rules (lines 62-63), over places: a variable or one of    *)
(* the two fields of a tuple variable.                                     *)
(***************************************************************************)

\* Most references to w live at once.
MaxRefs == 3
\* Most accepted assignments to a field of w.
MaxWrites == 1

Place(var, field) == [var |-> var, field |-> field]
\* The variables: w of the borrow snippets, wave, head and tail of main, and
\* the File variables.
W == <<"w", 0>>
WaveVar == <<"wave", 0>>
HeadVar == <<"head", 0>>
TailVar == <<"tail", 0>>
FileVar(f) == <<"file", f>>
Whole(var) == Place(var, "all")
\* w as a whole, and its fields w.0 and w.1.
WPlaces == {Place(W, fld) : fld \in {"all", "0", "1"}}

\* Two places share a value: the same variable, and one is the whole or both
\* are the same field.
Overlap(p, q) ==
    /\ p.var = q.var
    /\ (p.field = "all" \/ q.field = "all" \/ p.field = q.field)

\* Place q lies within place p.
Within(q, p) == p.var = q.var /\ (p.field = "all" \/ p.field = q.field)

\* The live references, in the order they were borrowed: lifetimes are
\* scopes, so the reference borrowed last is the first whose lifetime ends.
NoRefs == <<>>
LiveIn(rs) == DOMAIN rs

\* Reference r was borrowed, directly or not, from reference m.
RECURSIVE BorrowedFrom(_, _, _, _)
BorrowedFrom(rs, r, m, fuel) ==
    /\ fuel > 0
    /\ rs[r].parent # 0
    /\ (rs[r].parent = m \/ BorrowedFrom(rs, rs[r].parent, m, fuel - 1))

\* FrozenBy with a fault: only a shared reference to the very same place
\* freezes it, not one to the whole or to a field of it.
FrozenBySamePlace(rs, q) ==
    {r \in LiveIn(rs) : rs[r].kind = "shared" /\ rs[r].path = q}

\* Rule 1, shared access is read-only access: the live shared references to
\* a place overlapping q.  While there is one, nothing can change q.
FrozenBy(rs, q) ==
    {r \in LiveIn(rs) : rs[r].kind = "shared" /\ Overlap(rs[r].path, q)}

\* LockedBy with a fault: only a mutable reference to the very same place locks
\* it, not one to the whole or to a field of it.
LockedBySamePlace(rs, via, q) ==
    {m \in LiveIn(rs) :
        /\ rs[m].kind = "mut"
        /\ rs[m].path = q
        /\ m # via
        /\ ~(via # 0 /\ BorrowedFrom(rs, via, m, Len(rs)))}

\* LockedBy with a fault: a mutable reference also locks out the references
\* borrowed from it.
LockedByAll(rs, via, q) ==
    {m \in LiveIn(rs) :
        /\ rs[m].kind = "mut"
        /\ Overlap(rs[m].path, q)
        /\ m # via}

\* Rule 2, mutable access is exclusive access: the live mutable references
\* to a place overlapping q that shut out the path via (0: the owner), which
\* is every one of them but via itself and those via was borrowed from.
LockedBy(rs, via, q) ==
    {m \in LiveIn(rs) :
        /\ rs[m].kind = "mut"
        /\ Overlap(rs[m].path, q)
        /\ m # via
        /\ ~(via # 0 /\ BorrowedFrom(rs, via, m, Len(rs)))}

\* AcceptsIn with a fault: rule 1 is not applied to the owner, so a borrowed
\* value can be moved or assigned through it.
AcceptsInOwnerFree(rs, mv, via, q, k) ==
    /\ via = 0 => ~mv
    /\ via # 0 => (k = "write" => rs[via].kind = "mut")
    /\ LockedBy(rs, via, q) = {}
    /\ (k = "write" /\ via # 0) => FrozenBy(rs, q) = {}

\* Whether the access of kind k ("read": a read, a copy, a shared borrow;
\* "write": an assignment, a move, a mutable borrow) to place q through via
\* (0: the owner, else a reference) is accepted, the references being rs and
\* the owner's value moved away or not (mv).
AcceptsIn(rs, mv, via, q, k) ==
    /\ via = 0 => ~mv
    /\ via # 0 => (k = "write" => rs[via].kind = "mut")
    /\ LockedBy(rs, via, q) = {}
    /\ k = "write" => FrozenBy(rs, q) = {}

Accepts(via, q, k) == AcceptsIn(refs, moved, via, q, k)

\* A call f(&mut p, &q): both borrows are live for the call, the mutable one
\* taken first, with no other reference live.
CallAccepts(p, q) ==
    LET m == [kind |-> "mut", path |-> p, parent |-> 0]
    IN  /\ AcceptsIn(<<>>, FALSE, 0, p, "write")
        /\ AcceptsIn(<<m>>, FALSE, 0, q, "read")

Stmt(op, via, q, ok) == [op |-> op, via |-> via, path |-> q, ok |-> ok]
NoStmt == Stmt("none", 0, Whole(W), TRUE)

\* The places a statement can name through via: all of w through the owner,
\* the referent and its fields through a live reference.
Nameable(via) ==
    IF via = 0 THEN WPlaces
    ELSE {q \in WPlaces : Within(q, refs[via].path)}

\* The paths a statement can go through: the owner (0) or a live reference.
Vias == {0} \cup DOMAIN refs
Lowest(S) == CHOOSE x \in S : \A y \in S : x <= y

\* let r = &place; let m = &mut place; (through the owner or a reference)
Borrow ==
    /\ pc = "borrow"
    /\ Len(refs) < MaxRefs
    /\ \E kind \in {"shared", "mut"}, via \in Vias :
         \E q \in Nameable(via) :
            LET ok == Accepts(via, q, IF kind = "mut" THEN "write" ELSE "read")
                new == [kind |-> kind, path |-> q, parent |-> via]
            IN  /\ last' = Stmt(kind, via, q, ok)
                /\ refs' = IF ok THEN Append(refs, new) ELSE refs
    /\ UNCHANGED <<snippet, borrowck, pc, moved, val, extVars, fileVars>>

\* The value of w's fields after 10 is added to those in place q.
Added(v, q) ==
    [v EXCEPT ![1] = IF q.field \in {"all", "0"} THEN @ + 10 ELSE @,
              ![2] = IF q.field \in {"all", "1"} THEN @ + 10 ELSE @]

\* x += 10; (through the owner or a reference)
Assign ==
    /\ pc = "borrow"
    /\ \E via \in Vias :
         \E q \in Nameable(via) :
            LET ok == Accepts(via, q, "write") IN
            /\ ok => \A f \in 1..2 : Added(val, q)[f] <= 10 + 10 * MaxWrites
            /\ last' = Stmt("assign", via, q, ok)
            /\ val' = IF ok THEN Added(val, q) ELSE val
    /\ UNCHANGED <<snippet, borrowck, pc, refs, moved, extVars, fileVars>>

\* let z = y; v.1; r[0]; (a read through the owner or a reference)
Read ==
    /\ pc = "borrow"
    /\ \E via \in Vias :
         \E q \in Nameable(via) :
            last' = Stmt("read", via, q, Accepts(via, q, "read"))
    /\ UNCHANGED <<snippet, borrowck, pc, brwVars, extVars, fileVars>>

\* let aside = v; (the value is moved out of the owner)
Move ==
    /\ pc = "borrow"
    /\ LET q  == Whole(W)
           ok == Accepts(0, q, "write")
       IN  /\ last' = Stmt("move", 0, q, ok)
           /\ moved' = (moved \/ ok)
    /\ UNCHANGED <<snippet, borrowck, pc, refs, val, extVars, fileVars>>

\* The end of a scope: the lifetime of the reference borrowed last ends.
EndLifetime ==
    /\ pc = "borrow"
    /\ refs # <<>>
    /\ refs' = SubSeq(refs, 1, Len(refs) - 1)
    /\ last' = Stmt("end", 0, Whole(W), TRUE)
    /\ UNCHANGED <<snippet, borrowck, pc, moved, val, extVars, fileVars>>

\* let v = vec![...]; (the variable is bound to a fresh value)
Rebind ==
    /\ pc = "borrow"
    /\ moved
    /\ moved' = FALSE
    /\ last' = Stmt("let", 0, Whole(W), TRUE)
    /\ UNCHANGED <<snippet, borrowck, pc, refs, val, extVars, fileVars>>

(***************************************************************************)
(* extend (lines 30-34) and its callers (lines 37-48), over a heap of      *)
(* buffers.                                                                *)
(***************************************************************************)

NoCall == [vec |-> <<>>, src |-> <<>>, cap |-> 0, aliased |-> FALSE]

\* The contents of vector v: the initialised cells of its buffer.
Contents(h, v) == IF v.buf = 0 THEN <<>> ELSE SubSeq(h[v.buf].data, 1, v.len)

\* Vec::new(): no buffer, no capacity.
VecNew == [buf |-> 0, len |-> 0, cap |-> 0]

\* The capacities a reallocation of a full buffer of capacity cap may choose:
\* "a new buffer with more space".
NewCaps(cap) == (cap + 1)..(cap + MaxGrow)

\* Push with a fault: the reallocation does not copy the old contents.
PushNoCopy(h, v, x, nc) ==
    IF v.len < v.cap
    THEN [heap |-> [h EXCEPT ![v.buf].data = Append(@, x)],
          vec  |-> [v EXCEPT !.len = @ + 1],
          realloc |-> FALSE]
    ELSE LET h1 == IF v.buf = 0 THEN h ELSE [h EXCEPT ![v.buf].live = FALSE]
         IN  [heap |-> Append(h1, [data |-> <<x>>, live |-> TRUE]),
              vec  |-> [buf |-> Len(h) + 1, len |-> 1, cap |-> nc],
              realloc |-> TRUE]

\* Push with a fault: the reallocation does not drop the old buffer.
PushNoDrop(h, v, x, nc) ==
    IF v.len < v.cap
    THEN [heap |-> [h EXCEPT ![v.buf].data = Append(@, x)],
          vec  |-> [v EXCEPT !.len = @ + 1],
          realloc |-> FALSE]
    ELSE [heap |-> Append(h, [data |-> Append(Contents(h, v), x), live |-> TRUE]),
          vec  |-> [buf |-> Len(h) + 1, len |-> v.len + 1, cap |-> nc],
          realloc |-> TRUE]

\* vec.push(x) with the new capacity nc used if the buffer is full: a full
\* buffer is copied to a new one and dropped.  Yields the new heap and vector.
Push(h, v, x, nc) ==
    IF v.len < v.cap
    THEN [heap |-> [h EXCEPT ![v.buf].data = Append(@, x)],
          vec  |-> [v EXCEPT !.len = @ + 1],
          realloc |-> FALSE]
    ELSE LET old  == Contents(h, v)
             h1   == IF v.buf = 0 THEN h ELSE [h EXCEPT ![v.buf].live = FALSE]
             nb   == Len(h) + 1
         IN  [heap |-> Append(h1, [data |-> Append(old, x), live |-> TRUE]),
              vec  |-> [buf |-> nb, len |-> v.len + 1, cap |-> nc],
              realloc |-> TRUE]

\* ReadSlice with a fault: the slice is walked from its last element.
ReadSliceBackwards(h, s, k) ==
    IF h[s.buf].live THEN {h[s.buf].data[s.len - k]} ELSE Values

\* The values a read of element k (from 0) through slice s may yield: the cell
\* if the buffer is live, anything if it was dropped.
ReadSlice(h, s, k) ==
    IF h[s.buf].live THEN {h[s.buf].data[k + 1]} ELSE Values

\* A slice of the whole of buffer b, as it is when the call is made.
SliceOf(h, b) == [buf |-> b, len |-> IF b = 0 THEN 0 ELSE Len(h[b].data)]

\* The call extend(&mut vec, &slice) of the vector at place pv with slice s
\* of the value at place ps: rejected where the reference rules are enforced
\* and forbid the two borrows, else the loop starts at the slice's first
\* element.
CallExtend(pv, ps, s, at) ==
    LET ok == borrowck => CallAccepts(pv, ps) IN
    /\ last' = Stmt("call", 0, ps, ok)
    /\ IF ok
       THEN /\ slice' = s
            /\ i' = 0
            /\ pushed' = <<>>
            /\ dropped' = 0
            /\ reallocs' = 0
            /\ entry' = [vec |-> Contents(heap, wave),
                         src |-> IF s.buf = 0 THEN <<>>
                                 ELSE SubSeq(heap[s.buf].data, 1, s.len),
                         cap |-> wave.cap,
                         aliased |-> s.buf = wave.buf]
            /\ pc' = at
       ELSE /\ pc' = "rejected"
            /\ UNCHANGED <<slice, i, pushed, dropped, reallocs, entry>>
    /\ UNCHANGED <<snippet, borrowck, heap, wave, brwVars, fileVars>>

InCall == pc \in {"in41", "in42", "in47", "incall"}

\* One iteration of `for elt in slice { vec.push(*elt); }`.
ExtendStep ==
    /\ InCall
    /\ i < slice.len
    /\ \E x \in ReadSlice(heap, slice, i), nc \in NewCaps(wave.cap) :
          LET r == Push(heap, wave, x, nc) IN
          /\ (~r.realloc) => nc = wave.cap + 1
          /\ heap' = r.heap
          /\ wave' = r.vec
          /\ reallocs' = reallocs + (IF r.realloc THEN 1 ELSE 0)
          /\ pushed' = Append(pushed, x)
    /\ dropped' = dropped + (IF heap[slice.buf].live THEN 0 ELSE 1)
    /\ i' = i + 1
    /\ UNCHANGED <<snippet, borrowck, slice, pc, entry, last, brwVars, fileVars>>

\* The read of a dropped buffer may also end the process.
ExtendFault ==
    /\ InCall
    /\ i < slice.len
    /\ ~heap[slice.buf].live
    /\ pc' = "crashed"
    /\ dropped' = dropped + 1
    /\ UNCHANGED <<snippet, borrowck, heap, wave, slice, i, pushed, reallocs, entry, last, brwVars, fileVars>>

After(p) ==
    CASE p = "in41" -> "l42"
      [] p = "in42" -> "l44"
      [] p = "in47" -> "l48"
      [] OTHER      -> "returned"

\* The loop is over: extend returns to its caller.
ExtendReturn ==
    /\ InCall
    /\ i = slice.len
    /\ pc' = After(pc)
    /\ UNCHANGED <<snippet, borrowck, extVars, last, brwVars, fileVars>>

\* extend(&mut wave, &head);
CallHead ==
    /\ pc = "l41"
    /\ CallExtend(Whole(WaveVar), Whole(HeadVar), SliceOf(heap, 1), "in41")

\* extend(&mut wave, &tail);
CallTail ==
    /\ pc = "l42"
    /\ CallExtend(Whole(WaveVar), Whole(TailVar), SliceOf(heap, 2), "in42")

\* assert_eq!(wave, vec![0.0, 1.0, 0.0, -1.0]);
Assert1 ==
    /\ pc = "l44"
    /\ pc' = IF Contents(heap, wave) = Expected1 THEN "l47" ELSE "panicked44"
    /\ UNCHANGED <<snippet, borrowck, extVars, last, brwVars, fileVars>>

\* extend(&mut wave, &wave);
CallSelf ==
    /\ pc = "l47"
    /\ CallExtend(Whole(WaveVar), Whole(WaveVar), SliceOf(heap, wave.buf), "in47")

\* assert_eq!(wave, vec![0.0, 1.0, 0.0, -1.0, 0.0, 1.0, 0.0, -1.0]);
Assert2 ==
    /\ pc = "l48"
    /\ pc' = IF Contents(heap, wave) = Expected2 THEN "end" ELSE "panicked48"
    /\ UNCHANGED <<snippet, borrowck, extVars, last, brwVars, fileVars>>

\* extend called on an arbitrary vector, with its own buffer as the slice.
CallAliased ==
    /\ pc = "call"
    /\ CallExtend(Whole(WaveVar), Whole(WaveVar), SliceOf(heap, wave.buf), "incall")

\* extend called on an arbitrary vector and a slice of another object.
CallDistinct ==
    /\ pc = "call"
    /\ CallExtend(Whole(WaveVar), Whole(HeadVar), SliceOf(heap, 1), "incall")

(***************************************************************************)
(* File, its assignment operator (C++, lines 102-116) and clone_from       *)
(* (Rust, lines 121-139), over the table of open descriptors.              *)
(***************************************************************************)

\* The File variables of the snippet.
MaxFiles == 2
FileIds == 1..MaxFiles

NoFile == [made |-> FALSE, descriptor |-> 0 - 1]
NoAssign == [dst |-> 0, src |-> 0]

\* open and dup return the lowest descriptor not in use.
LowestFree(open) == Lowest({d \in 0..Cardinality(open) : d \notin open})

\* Close with a fault: the descriptor is left open.
CloseNothing(open, d) == open

\* close(d): descriptor d is no longer open.
Close(open, d) == open \ {d}

\* dup(d): a new descriptor for the file d is open on, or -1 if d is not open.
Dup(open, d) == IF d \in open THEN LowestFree(open) ELSE 0 - 1

\* File f(open("foo.txt", ...));  let mut f = new_file(open("foo.txt", ...));
OpenFile ==
    /\ pc = "file"
    /\ \E f \in FileIds :
          /\ ~files[f].made
          /\ files' = [files EXCEPT ![f] = [made |-> TRUE,
                                            descriptor |-> LowestFree(fds)]]
          /\ fds' = fds \cup {LowestFree(fds)}
          /\ last' = Stmt("open", f, Whole(FileVar(f)), TRUE)
    /\ UNCHANGED <<snippet, borrowck, pc, cur, extVars, brwVars>>

\* f = g;  clone_from(&mut f, &g);  The call is rejected where the reference
\* rules are enforced and forbid its two borrows; else its first statement
\* runs: close(descriptor).
AssignClose ==
    /\ pc = "file"
    /\ \E dst \in FileIds, src \in FileIds :
          LET ok == borrowck => CallAccepts(Whole(FileVar(dst)), Whole(FileVar(src)))
          IN  /\ files[dst].made
              /\ files[src].made
              /\ last' = Stmt("call", dst, Whole(FileVar(src)), ok)
              /\ IF ok
                 THEN /\ fds' = Close(fds, files[dst].descriptor)
                      /\ cur' = [dst |-> dst, src |-> src]
                      /\ pc' = "closed"
                 ELSE UNCHANGED <<fds, cur, pc>>
    /\ UNCHANGED <<snippet, borrowck, files, extVars, brwVars>>

\* descriptor = dup(rhs.descriptor);
AssignDup ==
    /\ pc = "closed"
    /\ LET arg == files[cur.src].descriptor
           new == Dup(fds, arg)
       IN  /\ files' = [files EXCEPT ![cur.dst].descriptor = new]
           /\ fds' = IF new >= 0 THEN fds \cup {new} ELSE fds
           /\ last' = Stmt("dup", arg, Whole(FileVar(cur.src)), arg \in fds)
    /\ pc' = "file"
    /\ UNCHANGED <<snippet, borrowck, cur, extVars, brwVars>>

(***************************************************************************)
(* The snippets.                                                           *)
(***************************************************************************)

\* main's vectors: head in buffer 1, tail in buffer 2, wave = Vec::new().
InitMain ==
    /\ snippet = "main"
    /\ borrowck \in BOOLEAN
    /\ heap = <<[data |-> head, live |-> TRUE], [data |-> tail, live |-> TRUE]>>
    /\ wave = VecNew
    /\ pc = "l41"
    /\ refs = NoRefs /\ moved = FALSE /\ val = <<10, 10>>
    /\ fds = {} /\ files = [f \in FileIds |-> NoFile]

\* Any slice (buffer 1) and any vector with any spare capacity (buffer 2,
\* or no buffer if its capacity is 0).
InitCall ==
    /\ snippet = "call"
    /\ borrowck \in BOOLEAN
    /\ \E s \in SeqsUpTo(Values, MaxLen), v \in SeqsUpTo(Values, MaxLen),
          spare \in 0..MaxGrow :
          IF Len(v) + spare = 0
          THEN /\ heap = <<[data |-> s, live |-> TRUE]>>
               /\ wave = VecNew
          ELSE /\ heap = <<[data |-> s, live |-> TRUE], [data |-> v, live |-> TRUE]>>
               /\ wave = [buf |-> 2, len |-> Len(v), cap |-> Len(v) + spare]
    /\ pc = "call"
    /\ refs = NoRefs /\ moved = FALSE /\ val = <<10, 10>>
    /\ fds = {} /\ files = [f \in FileIds |-> NoFile]

\* let mut x = 10; and the like: a variable no reference borrows yet.
InitBorrow ==
    /\ snippet = "borrow"
    /\ borrowck = TRUE
    /\ heap = <<>> /\ wave = VecNew
    /\ pc = "borrow"
    /\ refs = NoRefs /\ moved = FALSE /\ val = <<10, 10>>
    /\ fds = {} /\ files = [f \in FileIds |-> NoFile]

\* No File constructed yet, in C++ (no reference rules) or in Rust.
InitFile ==
    /\ snippet = "file"
    /\ borrowck \in BOOLEAN
    /\ heap = <<>> /\ wave = VecNew
    /\ pc = "file"
    /\ refs = NoRefs /\ moved = FALSE /\ val = <<10, 10>>
    /\ fds = {} /\ files = [f \in FileIds |-> NoFile]

Init ==
    /\ slice = [buf |-> 0, len |-> 0]
    /\ i = 0
    /\ pushed = <<>>
    /\ dropped = 0
    /\ reallocs = 0
    /\ entry = NoCall
    /\ last = NoStmt
    /\ cur = NoAssign
    /\ \/ InitMain
       \/ InitCall
       \/ InitBorrow
       \/ InitFile

Next ==
    \/ CallHead
    \/ CallTail
    \/ Assert1
    \/ CallSelf
    \/ Assert2
    \/ CallAliased
    \/ CallDistinct
    \/ ExtendStep
    \/ ExtendFault
    \/ ExtendReturn
    \/ Borrow
    \/ Assign
    \/ Read
    \/ Move
    \/ EndLifetime
    \/ Rebind
    \/ OpenFile
    \/ AssignClose
    \/ AssignDup

Spec == Init /\ [][Next]_vars

(***************************************************************************)
(* Properties.                                                             *)
(***************************************************************************)

Live == LiveIn(refs)
Borrowed(r, m) == BorrowedFrom(refs, r, m, MaxRefs)
\* extend has returned from a call whose slice was another object.
ReturnedDistinct ==
    /\ pc \in {"returned", "l42", "l44", "l47"}
    /\ entry # NoCall
    /\ ~entry.aliased

\* C1: for every vector and every slice that is a different object, extend
\* leaves the vector equal to its old contents followed by the elements of
\* the slice in order; in main, the two calls leave wave = [0, 1, 0, -1], so
\* the assertion of line 44 passes.
C1_ExtendAppends ==
    /\ ReturnedDistinct => Contents(heap, wave) = entry.vec \o entry.src
    /\ pc = "l44" => Contents(heap, wave) = Expected1
    /\ pc # "panicked44"

\* main has passed the assertion of line 44 after both calls.
C1_Witness ==
    /\ snippet = "main"
    /\ pc = "l47"
    /\ entry.vec = head
    /\ entry.src = tail
    /\ Contents(heap, wave) = <<0, 1, 0, 0 - 1>>

\* C2: the self-append extend(&mut wave, &wave) of line 47 yields the doubled
\* sequence, so the assertion of line 48 holds when it is reached.
C2_SelfAppendDoubles ==
    pc = "l48" => Contents(heap, wave) = Expected2

\* The running or finished call had vec's own buffer as its slice.
Aliased == entry # NoCall /\ entry.aliased
\* The reads through slice made so far, the one that faulted included.
Reads == IF pc = "crashed" THEN i + 1 ELSE i

\* C7: extend run with slice aliasing vec's own buffer.  If the vector is
\* full at the call, the first push reallocates and drops the buffer slice
\* points to, and every read after the first reads the dropped buffer.  If
\* the vector has spare capacity for every push, nothing is reallocated and
\* no read touches a dropped buffer.
C7_AliasedExtend ==
    /\ (Aliased /\ entry.cap = Len(entry.vec) /\ i >= 1) =>
          /\ reallocs >= 1
          /\ ~heap[slice.buf].live
          /\ dropped = Reads - 1
    /\ (Aliased /\ entry.cap >= Len(entry.vec) + slice.len) =>
          /\ reallocs = 0
          /\ dropped = 0
          /\ pc # "crashed"
          /\ slice.buf = wave.buf
          /\ slice.buf # 0 => heap[slice.buf].live

\* main's self-append on a full four-element buffer has made its four reads,
\* the last three of the dropped buffer.
C7_Witness ==
    /\ snippet = "main"
    /\ Aliased
    /\ Len(entry.vec) = 4
    /\ entry.cap = 4
    /\ i = 4
    /\ dropped = 3
    /\ reallocs = 1

\* Every step of a call consumes one element of the slice or ends the call.
ExtendProgress ==
    InCall => \/ (InCall' /\ slice.len - i' < slice.len - i /\ slice' = slice)
              \/ ~InCall'

\* C10: for every vector and every slice that is a different object, extend
\* terminates (each step consumes an element of the finite slice, and a step
\* is possible until it returns) after exactly len(slice) pushes, the value
\* of the k-th push being the k-th element of the slice, and leaves the slice
\* unchanged.
C10_ExtendTerminates ==
    /\ [](entry # NoCall /\ ~entry.aliased =>
            /\ i <= slice.len
            /\ Len(pushed) = i
            /\ pushed = SubSeq(entry.src, 1, i)
            /\ heap[slice.buf].live
            /\ heap[slice.buf].data = entry.src
            /\ slice.len = Len(entry.src)
            /\ pc # "crashed"
            /\ InCall => ENABLED (ExtendStep \/ ExtendReturn)
            /\ ReturnedDistinct => pushed = entry.src)
    /\ [][ExtendProgress]_vars

\* A call on a slice of two elements that made the vector reallocate has
\* returned.
C10_Witness ==
    /\ pc = "returned"
    /\ ~entry.aliased
    /\ Len(pushed) = 2
    /\ pushed = entry.src
    /\ reallocs >= 1

\* C6: the assignment operation given the same File as destination and
\* source closes the descriptor and then passes that closed descriptor to
\* dup, which fails; where the reference rules are enforced, the call
\* clone_from(&mut f, &f) is rejected and never runs.
C6_SelfAssignment ==
    /\ (pc = "closed" /\ cur.dst = cur.src) =>
          /\ ~borrowck
          /\ files[cur.src].descriptor \notin fds
    /\ (snippet = "file" /\ pc = "file" /\ last.op = "dup" /\ cur.dst = cur.src) =>
          /\ ~last.ok
          /\ files[cur.dst].descriptor = 0 - 1
    /\ (snippet = "file" /\ borrowck /\ last.op = "call"
            /\ last.path = Whole(FileVar(last.via))) => ~last.ok
    /\ (snippet = "file" /\ borrowck /\ pc = "file") =>
          \A f \in FileIds : files[f].made => files[f].descriptor \in fds

\* The C++ self-assignment ran: dup was handed the descriptor just closed.
C6_Witness ==
    /\ snippet = "file"
    /\ ~borrowck
    /\ pc = "file"
    /\ cur.dst = cur.src
    /\ last.op = "dup"
    /\ ~last.ok

\* The live mutable references to a place overlapping q.
MutsOn(q) == {m \in Live : refs[m].kind = "mut" /\ Overlap(refs[m].path, q)}

\* C3: mutable access is exclusive.  While a mutable reference m is live, no
\* other reference to an overlapping place is live unless one of the two was
\* borrowed from the other; no path but m and the references borrowed from m
\* reaches a place overlapping m's; and a borrow, read, assignment or move
\* attempted through the owner is rejected.
C3_MutableExclusive ==
    /\ \A m \in Live : refs[m].kind = "mut" =>
          /\ \A r \in Live \ {m} :
                Overlap(refs[r].path, refs[m].path) =>
                   \/ Borrowed(r, m)
                   \/ Borrowed(m, r) /\ refs[r].kind = "mut"
          /\ \A via \in (Vias \ {m}) :
                \A q \in Nameable(via) :
                   (Overlap(q, refs[m].path) /\ Accepts(via, q, "read")) =>
                       via # 0 /\ Borrowed(via, m)
    /\ (last.op \in {"read", "assign", "move"} /\ last.via = 0
           /\ MutsOn(last.path) # {}) => ~last.ok
    /\ (last.op = "shared" /\ last.via = 0 /\ last.ok) =>
          MutsOn(last.path) = {}
    /\ (last.op = "mut" /\ last.via = 0 /\ last.ok) =>
          MutsOn(last.path) = {Len(refs)}

\* With m1 = &mut y live, m2 = &mut y was rejected and then z = y was.
C3_Witness ==
    /\ snippet = "borrow"
    /\ refs = <<[kind |-> "mut", path |-> Whole(W), parent |-> 0]>>
    /\ last = Stmt("read", 0, Whole(W), FALSE)

\* The live shared references to a place overlapping q.
SharedOn(q) == FrozenBy(refs, q)
\* The place of field f (1, 2) of w.
FieldPlace(f) == Place(W, IF f = 1 THEN "0" ELSE "1")

\* While a shared reference to a field is live, the field keeps its value.
SharedKeepsValue ==
    \A f \in 1..2 : SharedOn(FieldPlace(f)) # {} => val'[f] = val[f]

\* C4: shared access is read-only.  One more shared borrow through the owner
\* is accepted whatever the number of shared references live; while a shared
\* reference is live, every assignment to, move of and mutable borrow of an
\* overlapping place is rejected, through whatever path, no mutable reference
\* to it is live but one the shared reference was borrowed from, and the
\* value stays what it was.
C4_SharedReadOnly ==
    /\ [](/\ \A q \in WPlaces :
               (~moved /\ MutsOn(q) = {}) => Accepts(0, q, "read")
          /\ \A r \in Live : refs[r].kind = "shared" =>
               /\ ~moved
               /\ \A via \in Vias : \A q \in Nameable(via) :
                     Overlap(q, refs[r].path) => ~Accepts(via, q, "write")
               /\ \A m \in MutsOn(refs[r].path) : Borrowed(r, m)
          /\ (last.op \in {"assign", "move", "mut"}
                 /\ \E r \in SharedOn(last.path) : r # last.via) => ~last.ok)
    /\ [][SharedKeepsValue]_vars

\* With r1 = &x and r2 = &x live and x = 10, x += 10 was rejected, and then
\* m = &mut x was.
C4_Witness ==
    /\ snippet = "borrow"
    /\ refs = <<[kind |-> "shared", path |-> Whole(W), parent |-> 0],
                [kind |-> "shared", path |-> Whole(W), parent |-> 0]>>
    /\ val = <<10, 10>>
    /\ last = Stmt("mut", 0, Whole(W), FALSE)

\* C5: no reference is used after its referent has been moved away.  No
\* reference is live once the value is moved; a move attempted while a
\* reference is live is rejected; a move of a value in place that no
\* reference borrows is accepted; and every read through a reference is
\* accepted and finds the value in place.
C5_NoUseAfterMove ==
    /\ moved => Live = {}
    /\ (last.op = "move" /\ Live # {}) => ~last.ok /\ ~moved
    /\ (last.op = "move" /\ last.ok) => moved /\ Live = {}
    /\ (last.op = "move" /\ Live = {}) => moved
    /\ (last.op = "read" /\ last.via # 0 /\ refs[last.via].kind = "shared") =>
          last.ok /\ ~moved

\* With r = &v live, the move of v to aside was rejected.
C5_Witness ==
    /\ snippet = "borrow"
    /\ refs = <<[kind |-> "shared", path |-> Whole(W), parent |-> 0]>>
    /\ ~moved
    /\ last = Stmt("move", 0, Whole(W), FALSE)

\* The live references borrowed from m to a place overlapping q.
ReborrowsOn(m, q) ==
    {r \in Live : Borrowed(r, m) /\ Overlap(refs[r].path, q)}

\* C8: re-borrowing.  Through a shared reference every place within its
\* referent can be read or borrowed as shared, and none written or borrowed
\* as mutable.  Through a mutable reference m a place within its referent can
\* be borrowed as mutable if no live reference borrowed from m overlaps it,
\* and as shared if no live mutable one does, so that &mut m.0 and then &m.1
\* are both accepted; and while m is live every use of an overlapping place
\* through the owner is rejected.  Every reference borrowed from another
\* reaches a place within that one's, and a mutable one is borrowed from a
\* mutable one.
C8_Reborrowing ==
    /\ \A r \in Live : refs[r].kind = "shared" =>
          \A q \in Nameable(r) :
             Accepts(r, q, "read") /\ ~Accepts(r, q, "write")
    /\ \A m \in Live : refs[m].kind = "mut" =>
          /\ \A q \in Nameable(m) :
                /\ ReborrowsOn(m, q) = {} => Accepts(m, q, "write")
                /\ (\A r \in ReborrowsOn(m, q) : refs[r].kind = "shared")
                      => Accepts(m, q, "read")
                /\ ReborrowsOn(m, q) # {} => ~Accepts(m, q, "write")
          /\ \A q \in WPlaces :
                Overlap(q, refs[m].path) => ~Accepts(0, q, "read")
    /\ \A r \in Live : refs[r].parent # 0 =>
          /\ refs[r].parent \in Live
          /\ Within(refs[r].path, refs[refs[r].parent].path)
          /\ refs[r].kind = "mut" => refs[refs[r].parent].kind = "mut"
    /\ (last.op = "mut" /\ last.via # 0 /\ refs[last.via].kind = "shared")
          => ~last.ok

\* With m = &mut v, m0 = &mut m.0 and r1 = &m.1 live, the read of v.1 through
\* the owner was rejected.
C8_Witness ==
    /\ snippet = "borrow"
    /\ refs = <<[kind |-> "mut", path |-> Whole(W), parent |-> 0],
                [kind |-> "mut", path |-> Place(W, "0"), parent |-> 1],
                [kind |-> "shared", path |-> Place(W, "1"), parent |-> 1]>>
    /\ last = Stmt("read", 0, Place(W, "1"), FALSE)

====
